---- MODULE Spec2Model ----
(***************************************************************************)
(* A model of bnulwh/logrus: the Logger (level thresholds, the logging     *)
(* methods, Exit) and the local-filesystem hook LfsHook.                   *)
(*                                                                         *)
(* Goroutines call the Logger's methods concurrently.  Every access to     *)
(* shared state (an atomic load or store of a threshold, a pool Get or     *)
(* Put, the dispatch of an entry, the exit function) is one step, so the   *)
(* steps of concurrent calls interleave.                                   *)
(***************************************************************************)
EXTENDS Integers, Sequences, FiniteSets, TLC

\* ------------------------------------------------------------------ bounds
\* The entries the model's pool holds at most.
MaxPool == 1

\* The goroutines: one calls the logging methods and the readers of the
\* thresholds, one calls SetLevel.
Callers == {"caller"}
Setters == {"setter"}
Goroutines == Callers \cup Setters

\* ------------------------------------------------------------------ levels
PanicLevel == 0
FatalLevel == 1
ErrorLevel == 2
WarnLevel == 3
InfoLevel == 4
DebugLevel == 5
TraceLevel == 6
AllLevels == PanicLevel..TraceLevel

\* The levels SetLevel is called with.
LevelArgs == {PanicLevel, WarnLevel, TraceLevel}

\* ------------------------------------------------------------------ methods
\* The logging methods of the Logger: a family and a style.  "Log" is the
\* family of Log/Logf/Logln/LogFn, which take the level as an argument.
Families ==
    {"Log", "Trace", "Debug", "Info", "Print", "Warn", "Warning", "Error", "Fatal", "Panic"}
Styles == {"", "f", "ln", "Fn"}

\* The level Entry.Print logs at.
EntryPrintLevel == InfoLevel

\* The level a level-named family logs at.
FamilyLevel(fam) ==
    CASE fam = "Trace" -> TraceLevel
      [] fam = "Debug" -> DebugLevel
      [] fam = "Info" -> InfoLevel
      [] fam = "Print" -> EntryPrintLevel
      [] fam \in {"Warn", "Warning"} -> WarnLevel
      [] fam = "Error" -> ErrorLevel
      [] fam = "Fatal" -> FatalLevel
      [] fam = "Panic" -> PanicLevel

\* Whether the method tests IsLevelEnabled before it acquires an entry.
Guarded(fam) == fam # "Print"

\* Whether the method ends with logger.Exit(1).
ExitsAfter(fam) == fam = "Fatal"

\* Whether the method takes a LogFunction.
TakesFn(style) == style = "Fn"

\* The status the Fatal methods pass to Exit.
FatalExitCode == 1

\* ------------------------------------------------------------------ state
VARIABLES
    ConsoleLevel,   \* Logger.ConsoleLevel
    HookLevel,      \* Logger.HookLevel
    ExitFunc,       \* Logger.ExitFunc: "nil", "os.Exit" or "custom"
    entryPool,      \* Logger.entryPool: how many entries it holds
    terminated,     \* os.Exit was called: the process is gone
    pc,             \* each goroutine's position
    call,           \* each goroutine's current call: method and arguments
    enabled,        \* the result of the call's IsLevelEnabled
    seenConsole,    \* the console threshold the call loaded, until it is used
    entry,          \* whether the call holds an entry
    events,         \* what the call has done so far, in order
    exitCalls,      \* the invocations of the exit function by the call
    overlapped,     \* whether a SetLevel call has run since the call began
    hook,           \* the LfsHook, once constructed
    panicked,       \* NewLocalFileSystemHook panicked
    last,           \* the hook's last operation and what it did
    files,          \* the files that were created
    created,        \* the rotating writers ConfigLocalFileSystemLogger created
    fmtEntry,       \* the entry given to SimpleFormatter.Format, and its formatter
    formatted,      \* what the Format calls on the entry returned, in order
    muDisabled,     \* logger.mu.disabled
    muLocked,       \* whether logger.mu.lock is locked
    muHeld,         \* per goroutine: it locked logger.mu.lock in its call
    hookLocked,     \* whether the hook's lock is locked
    Hooks,          \* logger.Hooks: the hook table installed
    hooked,         \* the hook tables the hook was added to
    hand,           \* per goroutine: the hook table it has in hand
    old,            \* per goroutine: oldHooks of its ReplaceHooks call
    lpc,            \* per goroutine: its position in a call that takes a lock
    lop,            \* per goroutine: the method it is in
    lret,           \* per goroutine: what its Fire is about to return
    fatal,          \* an unlocked sync.Mutex was unlocked
    pooled,         \* the entries logger.entryPool holds
    live,           \* the entries allocated and not collected
    Data,           \* per entry: the keys of entry.Data
    held,           \* per goroutine: the entry its call got from newEntry
    ppc,            \* per goroutine: its position in a call that takes an entry
    pop,            \* per goroutine: the method it is in, or was in last
    released,       \* per goroutine: the releaseEntry calls of that call
    derived,        \* per goroutine: the entry its WithField returned
    naming,         \* the ConfigLocalFileSystemLogger call that creates writers
    rotating,       \* the arguments of its rotatelogs.New calls, in order
    pointed         \* the symlinks the rotating writers made, and to which file

levelVars == <<ConsoleLevel, HookLevel>>
sharedVars == <<ExitFunc, entryPool, terminated>>
localVars == <<call, enabled, seenConsole, entry, events, exitCalls>>
loggerVars == <<levelVars, sharedVars, pc, localVars, overlapped>>

hookVars == <<hook, panicked, last, files>>

configVars == <<created>>
fmtVars == <<fmtEntry, formatted>>
lockVars == <<muDisabled, muLocked, muHeld, hookLocked, Hooks, hooked, hand, old,
              lpc, lop, lret, fatal>>

poolVars == <<pooled, live, Data, held, ppc, pop, released, derived>>

nameVars == <<naming, rotating, pointed>>

vars == <<loggerVars, hookVars, configVars, fmtVars, lockVars, poolVars, nameVars>>

NoCall == [op |-> "none"]

\* The goroutines that call the methods taking a lock: two that replace the
\* hook table and add hooks, and one that disables the logger mutex; the
\* hook is fired, set and added by two of them.
Swappers == {"s1", "s2"}
Disablers == {"d"}
Lockers == Swappers \cup Disablers
Firers == {"s2", "d"}

\* The hook tables: the logger's first one, and the one each swapper brings.
Tables == {"t0", "t1", "t2"}
FirstHand == [g \in Swappers |-> IF g = "s1" THEN "t1" ELSE "t2"]

\* The goroutines whose calls take an entry, the Entry objects there can be
\* at a time, and the field names.
PoolUsers == {"u1", "u2"}
Entries == {"e1", "e2", "e3"}
Keys == {"k1", "k2"}
NoEntry == [entry |-> "none", data |-> {}]

\* New(): the thresholds at Debug.  ExitFunc is os.Exit after New(); a Logger
\* built as a struct literal may leave it nil or set its own.
Init ==
    /\ ConsoleLevel = DebugLevel
    /\ HookLevel = DebugLevel
    /\ ExitFunc \in {"nil", "os.Exit", "custom"}
    /\ entryPool = 0
    /\ terminated = FALSE
    /\ pc = [g \in Goroutines |-> "idle"]
    /\ call = [g \in Goroutines |-> NoCall]
    /\ enabled = [g \in Goroutines |-> FALSE]
    /\ seenConsole = [g \in Goroutines |-> PanicLevel]
    /\ entry = [g \in Goroutines |-> FALSE]
    /\ events = [g \in Goroutines |-> <<>>]
    /\ exitCalls = [g \in Goroutines |-> <<>>]
    /\ overlapped = [g \in Goroutines |-> FALSE]
    /\ hook = [made |-> FALSE]
    /\ panicked = FALSE
    /\ last = [op |-> "none"]
    /\ files = {}
    /\ created = {}
    /\ fmtEntry = [made |-> FALSE]
    /\ formatted = <<>>
    /\ muDisabled = FALSE
    /\ muLocked = FALSE
    /\ muHeld = [g \in Lockers |-> FALSE]
    /\ hookLocked = FALSE
    /\ Hooks = "t0"
    /\ hooked = {}
    /\ hand = FirstHand
    /\ old = [g \in Swappers |-> "none"]
    /\ lpc = [g \in Lockers |-> "idle"]
    /\ lop = [g \in Lockers |-> "none"]
    /\ lret = [g \in Lockers |-> "none"]
    /\ fatal = FALSE
    /\ pooled = {}
    /\ live = {}
    /\ Data = [e \in Entries |-> {}]
    /\ held = [g \in PoolUsers |-> "none"]
    /\ ppc = [g \in PoolUsers |-> "idle"]
    /\ pop = [g \in PoolUsers |-> "none"]
    /\ released = [g \in PoolUsers |-> 0]
    /\ derived = [g \in PoolUsers |-> NoEntry]
    /\ naming = [made |-> FALSE]
    /\ rotating = <<>>
    /\ pointed = {}

\* A goroutine that can start a call: the process runs and its last call returned.
Ready(g) == ~terminated /\ pc[g] \in {"idle", "done"}

\* A goroutine in its call at position p.
At(g, p) == ~terminated /\ pc[g] = p

\* Goroutine g moves to position p.
Goto(g, p) == pc' = [pc EXCEPT ![g] = p]

\* A new call c of goroutine g, at position p, with seen for what it loaded.
Fresh(g, c, p, seen) ==
    /\ call' = [call EXCEPT ![g] = c]
    /\ pc' = [pc EXCEPT ![g] = p]
    /\ enabled' = [enabled EXCEPT ![g] = FALSE]
    /\ seenConsole' = [seenConsole EXCEPT ![g] = seen]
    /\ entry' = [entry EXCEPT ![g] = FALSE]
    /\ events' = [events EXCEPT ![g] = <<>>]
    /\ exitCalls' = [exitCalls EXCEPT ![g] = <<>>]

\* ------------------------------------------------------------------ thresholds
\* The SetLevel calls that have stored to a threshold and have a store left.
SetLevelInFlight == {s \in Goroutines : pc[s] \in {"storeHook", "storeHook2"}}

\* The goroutines that have made a call: inside it, or with its record.
InCall == {h \in Goroutines : pc[h] # "idle"}

\* Goroutine g starts a call: it overlaps the SetLevel calls in flight.
Started(g) == overlapped' = [overlapped EXCEPT ![g] = (SetLevelInFlight \ {g}) # {}]

\* Goroutine g stores to a threshold: the thresholds are no longer those of
\* the calls made so far.
Stored(g) == overlapped' = [h \in Goroutines |-> overlapped[h] \/ h \in InCall \ {g}]

\* Goroutine g starts SetLevel with a store.
StartedAndStored(g) ==
    overlapped' = [h \in Goroutines |->
                      IF h = g THEN (SetLevelInFlight \ {g}) # {}
                      ELSE overlapped[h] \/ h \in InCall]

\* The hook threshold a SetLevel call leaves behind.
FinalHook(levels) == IF Len(levels) > 1 THEN levels[2] ELSE levels[1]

\* len(levels) = 0: SetLevel stores nothing.
SetLevelNone(g) ==
    /\ Ready(g)
    /\ Fresh(g, [op |-> "SetLevel"], "done", PanicLevel)
    /\ Started(g)
    /\ UNCHANGED <<levelVars, sharedVars, hookVars, configVars, fmtVars, lockVars, poolVars, nameVars>>

\* atomic.StoreUint32(&logger.ConsoleLevel, levels[0]).  The call keeps, while
\* it runs, its arguments and the hook threshold it found.
SetLevelStoreConsole(g, levels) ==
    /\ Ready(g)
    /\ Fresh(g, [op |-> "SetLevel", levels |-> levels, oldHook |-> HookLevel],
             "storeHook", PanicLevel)
    /\ StartedAndStored(g)
    /\ ConsoleLevel' = levels[1]
    /\ UNCHANGED <<HookLevel, sharedVars, hookVars, configVars, fmtVars, lockVars, poolVars, nameVars>>

\* Where SetLevel goes after the store of levels[0] to HookLevel.
AfterStoreHook(levels) == IF Len(levels) > 1 THEN "storeHook2" ELSE "done"

\* The call records when goroutine g goes to position p of SetLevel: a call
\* that returned keeps neither its arguments nor what it found.
CallAt(g, p) == IF p = "done" THEN [call EXCEPT ![g] = [op |-> "SetLevel"]] ELSE call

\* atomic.StoreUint32(&logger.HookLevel, levels[0])
SetLevelStoreHook(g) ==
    /\ At(g, "storeHook")
    /\ HookLevel' = call[g].levels[1]
    /\ Goto(g, AfterStoreHook(call[g].levels))
    /\ call' = CallAt(g, AfterStoreHook(call[g].levels))
    /\ Stored(g)
    /\ UNCHANGED <<ConsoleLevel, sharedVars, enabled, seenConsole, entry, events, exitCalls, hookVars, configVars, fmtVars, lockVars, poolVars, nameVars>>

\* atomic.StoreUint32(&logger.HookLevel, levels[1])
SetLevelStoreHook2(g) ==
    /\ At(g, "storeHook2")
    /\ HookLevel' = call[g].levels[2]
    /\ Goto(g, "done")
    /\ call' = CallAt(g, "done")
    /\ Stored(g)
    /\ UNCHANGED <<ConsoleLevel, sharedVars, enabled, seenConsole, entry, events, exitCalls, hookVars, configVars, fmtVars, lockVars, poolVars, nameVars>>

\* A threshold that admits only the levels below it.
AdmitsAbove(threshold, level) == threshold > level

\* A threshold admits a level: threshold >= level.
Admits(threshold, level) == threshold >= level

\* IsLevelEnabled's result from the two thresholds it loaded.
IsLevelEnabled(console, hookTh, level) == Admits(console, level) \/ Admits(hookTh, level)

\* GetLevel(): logger.consoleLevel(), one atomic load.
GetLevel(g) ==
    /\ Ready(g)
    /\ Fresh(g, [op |-> "GetLevel"], "done", ConsoleLevel)
    /\ Started(g)
    /\ UNCHANGED <<levelVars, sharedVars, hookVars, configVars, fmtVars, lockVars, poolVars, nameVars>>

\* A call of IsLevelEnabled(level) from outside the Logger.
IsLevelEnabledCall(g, level) ==
    /\ Ready(g)
    /\ Fresh(g, [op |-> "IsLevelEnabled", level |-> level], "loadConsole", PanicLevel)
    /\ Started(g)
    /\ UNCHANGED <<levelVars, sharedVars, hookVars, configVars, fmtVars, lockVars, poolVars, nameVars>>

\* ------------------------------------------------------------------ logging
\* Where a logging method starts: at its IsLevelEnabled test, or, with no
\* test (Print, Printf, Println, PrintFn), at newEntry.
FirstStep(fam) == IF Guarded(fam) THEN "loadConsole" ELSE "newEntry"

\* An Exit that goes to the exit function at once.
ExitWithoutHandlers == "exitFunc"

\* logger.Exit(code) starts with runHandlers().
ExitFirstStep == "runHandlers"

\* Where a logging method goes once its if-block is over or was skipped.
AfterBlock(c) == IF ExitsAfter(c.fam) THEN ExitFirstStep ELSE "done"

\* A Fatal method whose Exit(1) is inside its if-block.
AfterCheckExitInBlock(c, en) ==
    IF c.op = "IsLevelEnabled" THEN "done"
    ELSE IF en THEN "newEntry" ELSE "done"

\* Where a call goes with the result of IsLevelEnabled.
AfterCheck(c, en) ==
    IF c.op = "IsLevelEnabled" THEN "done"
    ELSE IF en THEN "newEntry" ELSE AfterBlock(c)

\* Where a logging method goes with its entry: to fn() or to the entry's method.
AfterNewEntry(c) == IF c.fn THEN "fn" ELSE "entryLog"

\* A call of a logging method: family, style and, for the Log family, the
\* level.  Of the style the call keeps whether it takes a LogFunction: the
\* plain, f and ln methods differ in the entry method they call, not in
\* their steps.
LogCall(g, fam, style, level) ==
    /\ Ready(g)
    /\ fam # "Log" => level = FamilyLevel(fam)
    /\ Fresh(g, [op |-> "log", fam |-> fam, fn |-> TakesFn(style), level |-> level],
             FirstStep(fam), PanicLevel)
    /\ Started(g)
    /\ UNCHANGED <<levelVars, sharedVars, hookVars, configVars, fmtVars, lockVars, poolVars, nameVars>>

\* logger.consoleLevel() >= level: the first operand of IsLevelEnabled.
LoadConsole(g) ==
    /\ At(g, "loadConsole")
    /\ IF Admits(ConsoleLevel, call[g].level)
       THEN /\ enabled' = [enabled EXCEPT ![g] = TRUE]
            /\ Goto(g, AfterCheck(call[g], TRUE))
            /\ UNCHANGED seenConsole
       ELSE /\ Goto(g, "loadHook")
            /\ seenConsole' = [seenConsole EXCEPT ![g] = ConsoleLevel]
            /\ UNCHANGED enabled
    /\ UNCHANGED <<levelVars, sharedVars, call, entry, events, exitCalls, overlapped, hookVars, configVars, fmtVars, lockVars, poolVars, nameVars>>

\* || logger.hookLevel() >= level: the second operand, evaluated when the
\* first is false.
LoadHook(g) ==
    /\ At(g, "loadHook")
    /\ LET en == IsLevelEnabled(seenConsole[g], HookLevel, call[g].level)
       IN /\ enabled' = [enabled EXCEPT ![g] = en]
          /\ Goto(g, AfterCheck(call[g], en))
    /\ seenConsole' = [seenConsole EXCEPT ![g] = PanicLevel]
    /\ UNCHANGED <<levelVars, sharedVars, call, entry, events, exitCalls, overlapped, hookVars, configVars, fmtVars, lockVars, poolVars, nameVars>>

\* How the step at position p of a call accesses the thresholds: SetLevel
\* with atomic.StoreUint32, consoleLevel() and hookLevel() with
\* atomic.LoadUint32, and newEntry, for an entry it got from the pool, with
\* the plain reads logger.ConsoleLevel and logger.HookLevel.
ThresholdAccess(p) ==
    CASE p \in {"storeHook", "storeHook2"} -> "atomic"
      [] p \in {"loadConsole", "loadHook"} -> "atomic"
      [] p = "newEntry" -> "plain"
      [] OTHER -> "none"

\* newEntry(): entryPool.Get() gives a pooled entry or nothing (a sync.Pool
\* may drop what was Put), and then NewEntry(logger) allocates one.  The
\* entry's ConsoleLevel and HookLevel are set from the logger's; the model
\* keeps no copy, Delivery reads the logger's.
NewEntryStep(g) ==
    /\ At(g, "newEntry")
    /\ \/ /\ entryPool > 0
          /\ entryPool' = entryPool - 1
       \/ UNCHANGED entryPool
    /\ entry' = [entry EXCEPT ![g] = TRUE]
    /\ events' = [events EXCEPT ![g] = Append(@, "acquire")]
    /\ Goto(g, AfterNewEntry(call[g]))
    /\ UNCHANGED <<levelVars, ExitFunc, terminated, call, enabled, seenConsole, exitCalls, overlapped, hookVars, configVars, fmtVars, lockVars, poolVars, nameVars>>

\* fn(): the LogFunction is evaluated for the entry's arguments.
CallFn(g) ==
    /\ At(g, "fn")
    /\ events' = [events EXCEPT ![g] = Append(@, "fn")]
    /\ Goto(g, "entryLog")
    /\ UNCHANGED <<levelVars, sharedVars, call, enabled, seenConsole, entry, exitCalls, overlapped, hookVars, configVars, fmtVars, lockVars, poolVars, nameVars>>

\* What the entry's terminal method delivers: the record to the output when
\* the console threshold admits the level, and to the hooks when the hook
\* threshold does; nothing when neither does.
Delivery(console, hookTh, level) ==
    (IF Admits(console, level) THEN <<"out">> ELSE <<>>)
    \o (IF Admits(hookTh, level) THEN <<"hooks">> ELSE <<>>)

\* entry.Log / entry.Logf / entry.Logln / entry.Print...: the dispatch.
EntryLog(g) ==
    /\ At(g, "entryLog")
    /\ events' = [events EXCEPT ![g] =
                     @ \o <<"dispatch">> \o Delivery(ConsoleLevel, HookLevel, call[g].level)]
    /\ Goto(g, "releaseEntry")
    /\ UNCHANGED <<levelVars, sharedVars, call, enabled, seenConsole, entry, exitCalls, overlapped, hookVars, configVars, fmtVars, lockVars, poolVars, nameVars>>

\* What the pool holds after a Put: one entry more, unless it drops the entry
\* (a sync.Pool holds what it likes; the model's holds MaxPool at most).
PoolPut(n) == IF n < MaxPool THEN n + 1 ELSE n

\* releaseEntry(entry): entryPool.Put(entry).
ReleaseEntry(g) ==
    /\ At(g, "releaseEntry")
    /\ entryPool' = PoolPut(entryPool)
    /\ entry' = [entry EXCEPT ![g] = FALSE]
    /\ events' = [events EXCEPT ![g] = Append(@, "release")]
    /\ Goto(g, AfterBlock(call[g]))
    /\ UNCHANGED <<levelVars, ExitFunc, terminated, call, enabled, seenConsole, exitCalls, overlapped, hookVars, configVars, fmtVars, lockVars, poolVars, nameVars>>

\* ------------------------------------------------------------------ Exit
\* Exit(code): runHandlers().
RunHandlers(g) ==
    /\ At(g, "runHandlers")
    /\ events' = [events EXCEPT ![g] = Append(@, "handlers")]
    /\ Goto(g, "exitFunc")
    /\ UNCHANGED <<levelVars, sharedVars, call, enabled, seenConsole, entry, exitCalls, overlapped, hookVars, configVars, fmtVars, lockVars, poolVars, nameVars>>

\* if logger.ExitFunc == nil { logger.ExitFunc = os.Exit }
ExitFuncOrDefault(f) == IF f = "nil" THEN "os.Exit" ELSE f

\* Exit(code): logger.ExitFunc(code).  os.Exit ends the process; any other
\* exit function returns to the caller.
InvokeExitFunc(g) ==
    /\ At(g, "exitFunc")
    /\ ExitFunc' = ExitFuncOrDefault(ExitFunc)
    /\ exitCalls' = [exitCalls EXCEPT ![g] =
                        Append(@, [fn |-> ExitFunc', code |-> FatalExitCode])]
    /\ events' = [events EXCEPT ![g] =
                     @ \o (IF ExitFunc = "nil" THEN <<"defaultExitFunc">> ELSE <<>>)
                       \o <<"exit">>]
    /\ terminated' = (ExitFunc' = "os.Exit")
    /\ Goto(g, IF ExitFunc' = "os.Exit" THEN "exited" ELSE "done")
    /\ UNCHANGED <<levelVars, entryPool, call, enabled, seenConsole, entry, overlapped, hookVars, configVars, fmtVars, lockVars, poolVars, nameVars>>

\* ------------------------------------------------------------------ LfsHook
\* The paths and the writers a hook is given, and the levels its maps have.
Paths == {"a.log", "b.log"}
Writers == {"w1", "w2"}
MapLevels == {ErrorLevel, InfoLevel}

\* A Go map: nil, or the mapping m.
NilMap == [nil |-> TRUE, m |-> <<>>]
Map(m) == [nil |-> FALSE, m |-> m]
MapsTo(vals) == UNION {[D -> vals] : D \in SUBSET MapLevels}

\* The formatters: nil, a TextFormatter, a SimpleFormatter, any other.
Formatters ==
    {[type |-> "nil", colors |-> FALSE], [type |-> "custom", colors |-> FALSE]}
    \cup [type : {"TextFormatter", "SimpleFormatter"}, colors : BOOLEAN]

\* var defaultFormatter = &logrus.TextFormatter{DisableColors: true}
defaultFormatter == [type |-> "TextFormatter", colors |-> FALSE]

\* The outputs NewLocalFileSystemHook is called with, by their dynamic type:
\* the four it knows, and others (nil, an int, a map that is no PathMap).
Outputs ==
    [type : {"string"}, val : Paths]
    \cup [type : {"io.Writer"}, val : Writers]
    \cup [type : {"PathMap"}, val : MapsTo(Paths)]
    \cup [type : {"WriterMap"}, val : MapsTo(Writers)]
    \cup [type : {"nil", "int", "map[Level]string"}, val : {"other"}]

NoHook == [made |-> FALSE]

\* hook := &LfsHook{lock: new(sync.Mutex)}
EmptyHook ==
    [made |-> TRUE,
     paths |-> NilMap, writers |-> NilMap, levels |-> {},
     formatter |-> [type |-> "nil", colors |-> FALSE],
     defaultPath |-> "", defaultWriter |-> "nil",
     hasDefaultPath |-> FALSE, hasDefaultWriter |-> FALSE]

\* SetFormatter: nil becomes the default formatter, a TextFormatter has its
\* colors disabled, any other formatter is kept as it is.
WithFormatter(h, f) ==
    [h EXCEPT !.formatter =
        IF f.type = "nil" THEN defaultFormatter
        ELSE IF f.type = "TextFormatter" THEN [f EXCEPT !.colors = FALSE]
        ELSE f]

\* SetDefaultPath: hook.defaultPath = defaultPath; hook.hasDefaultPath = true
WithDefaultPath(h, p) == [h EXCEPT !.defaultPath = p, !.hasDefaultPath = TRUE]

\* SetDefaultWriter: hook.defaultWriter = defaultWriter; hook.hasDefaultWriter = true
WithDefaultWriter(h, w) == [h EXCEPT !.defaultWriter = w, !.hasDefaultWriter = TRUE]

\* A type switch without its default case: the hook is returned as it is.
ConfiguredOrEmpty(h, output) ==
    CASE output.type = "string" -> WithDefaultPath(h, output.val)
      [] output.type = "io.Writer" -> WithDefaultWriter(h, output.val)
      [] output.type = "PathMap" ->
            [h EXCEPT !.paths = Map(output.val), !.levels = DOMAIN output.val]
      [] output.type = "WriterMap" ->
            [h EXCEPT !.writers = Map(output.val), !.levels = DOMAIN output.val]
      [] OTHER -> h

\* switch output.(type): the hook as the output's type configures it, or
\* NoHook for the panic of the default case.
Configured(h, output) ==
    CASE output.type = "string" -> WithDefaultPath(h, output.val)
      [] output.type = "io.Writer" -> WithDefaultWriter(h, output.val)
      [] output.type = "PathMap" ->
            [h EXCEPT !.paths = Map(output.val), !.levels = DOMAIN output.val]
      [] output.type = "WriterMap" ->
            [h EXCEPT !.writers = Map(output.val), !.levels = DOMAIN output.val]
      [] OTHER -> NoHook

\* NewLocalFileSystemHook(output, formatter)
NewLocalFileSystemHook(output, formatter) ==
    /\ ~hook.made /\ ~panicked
    /\ LET h == Configured(WithFormatter(EmptyHook, formatter), output)
       IN /\ hook' = h
          /\ panicked' = ~h.made
    /\ last' = [op |-> "NewLocalFileSystemHook", output |-> output]
    /\ UNCHANGED <<files, loggerVars, configVars, fmtVars, lockVars, poolVars, nameVars>>

\* hook.SetFormatter(formatter), under the hook's lock.
SetFormatter(formatter) ==
    /\ hook.made
    /\ hook' = WithFormatter(hook, formatter)
    /\ last' = [op |-> "SetFormatter"]
    /\ UNCHANGED <<panicked, files, loggerVars, configVars, fmtVars, lockVars, poolVars, nameVars>>

\* hook.SetDefaultPath(defaultPath), under the hook's lock.
SetDefaultPath(p) ==
    /\ hook.made
    /\ hook' = WithDefaultPath(hook, p)
    /\ last' = [op |-> "SetDefaultPath"]
    /\ UNCHANGED <<panicked, files, loggerVars, configVars, fmtVars, lockVars, poolVars, nameVars>>

\* hook.SetDefaultWriter(defaultWriter), under the hook's lock.
SetDefaultWriter(w) ==
    /\ hook.made
    /\ hook' = WithDefaultWriter(hook, w)
    /\ last' = [op |-> "SetDefaultWriter"]
    /\ UNCHANGED <<panicked, files, loggerVars, configVars, fmtVars, lockVars, poolVars, nameVars>>

\* What a Fire did: the function that took the entry, the destination it
\* resolved, whether a file was opened, whether a write was attempted and
\* whether it succeeded, and the error returned.
Fired(via, dest, opened, attempted, written, ret) ==
    [via |-> via, dest |-> dest, opened |-> opened, attempted |-> attempted,
     written |-> written, ret |-> ret]

\* return nil, with no destination.
Dropped(via) == Fired(via, "none", FALSE, FALSE, FALSE, "nil")

\* The writer ioWrite resolves for the level: the mapped one, else the
\* default one if there is one, else none.
WriterFor(h, level) ==
    IF level \in DOMAIN h.writers.m THEN h.writers.m[level]
    ELSE IF h.hasDefaultWriter THEN h.defaultWriter
    ELSE "none"

\* ioWrite: format, then writer.Write(msg); the error of either is returned.
IoWrite(h, level, formatOK, writeOK) ==
    LET writer == WriterFor(h, level) IN
    IF writer = "none" THEN Dropped("ioWrite")
    ELSE IF ~formatOK THEN Fired("ioWrite", writer, FALSE, FALSE, FALSE, "formatErr")
    ELSE Fired("ioWrite", writer, FALSE, TRUE, writeOK,
               IF writeOK THEN "nil" ELSE "writeErr")

\* The path fileWrite resolves for the level.
PathFor(h, level) ==
    IF level \in DOMAIN h.paths.m THEN h.paths.m[level]
    ELSE IF h.hasDefaultPath THEN h.defaultPath
    ELSE "none"

\* fileWrite: open (and create) the file, format, fd.Write(msg).  The error
\* of the open or of the format is returned; what fd.Write returns is dropped.
FileWrite(h, level, formatOK, openOK, writeOK) ==
    LET path == PathFor(h, level) IN
    IF path = "none" THEN Dropped("fileWrite")
    ELSE IF ~openOK THEN Fired("fileWrite", path, FALSE, FALSE, FALSE, "openErr")
    ELSE IF ~formatOK THEN Fired("fileWrite", path, TRUE, FALSE, FALSE, "formatErr")
    ELSE Fired("fileWrite", path, TRUE, TRUE, writeOK, "nil")

\* Fire: ioWrite with a writers map or a default writer, else fileWrite with
\* a paths map or a default path, else nil.
FireResult(h, level, formatOK, openOK, writeOK) ==
    IF ~h.writers.nil \/ h.hasDefaultWriter THEN IoWrite(h, level, formatOK, writeOK)
    ELSE IF ~h.paths.nil \/ h.hasDefaultPath
         THEN FileWrite(h, level, formatOK, openOK, writeOK)
    ELSE Dropped("Fire")

\* hook.Levels(): return logrus.AllLevels, whatever hook.levels holds.
Levels(h) == AllLevels

\* A call of hook.Levels(): it takes no lock and changes nothing.
LevelsCall ==
    /\ hook.made
    /\ last' = [op |-> "Levels", result |-> Levels(hook)]
    /\ UNCHANGED <<hook, panicked, files, loggerVars, configVars, fmtVars, lockVars, poolVars, nameVars>>

\* Whether the hook's formatter can fail: the logrus ones that are modelled
\* return no error.
CanFail(f) == f.type = "custom"

\* hook.Fire(entry), under the hook's lock, for an entry of the level; the
\* formatter, the open and the write succeed or fail.
Fire(level, formatOK, openOK, writeOK) ==
    /\ hook.made
    /\ ~formatOK => CanFail(hook.formatter)
    /\ LET r == FireResult(hook, level, formatOK, openOK, writeOK)
       IN /\ last' = [op |-> "Fire", level |-> level, did |-> r,
                     formatOK |-> formatOK, openOK |-> openOK, writeOK |-> writeOK]
          /\ files' = IF r.opened THEN files \cup {r.dest} ELSE files
    /\ UNCHANGED <<hook, panicked, loggerVars, configVars, fmtVars, lockVars, poolVars, nameVars>>

\* ------------------------------------------------------------------ ConfigLocalFileSystemLogger
\* The rotating writers createFileLogger makes: one per level name, and the
\* one with no level name, the common one.
RotateLogs == {"debug", "info", "warn", "error", "common"}

\* The messages of the entries that are fired.
Messages == {"m1", "m2"}

\* The writers of an io.MultiWriter(level writer, commonWriter), in order;
\* any other writer is written as itself.
MultiWriterParts(w) ==
    CASE w = "debug+common" -> <<"debug", "common">>
      [] w = "info+common" -> <<"info", "common">>
      [] w = "warn+common" -> <<"warn", "common">>
      [] w = "error+common" -> <<"error", "common">>
      [] OTHER -> <<w>>

\* The WriterMap ConfigLocalFileSystemLogger gives the hook: Error, Fatal and
\* Panic share multiErrorWriter.
ConfigWriterMap ==
    [l \in PanicLevel..DebugLevel |->
        CASE l = DebugLevel -> "debug+common"
          [] l = InfoLevel -> "info+common"
          [] l = WarnLevel -> "warn+common"
          [] OTHER -> "error+common"]

\* ConfigLocalFileSystemLogger: the five createFileLogger calls, of which
\* those in failed return an error and a nil writer; each err := replaces the
\* one before, so that the error reported is the common writer's; then the
\* hook over the WriterMap, with a SimpleFormatter, is added to the logger.
ConfigLocalFileSystemLogger(failed) ==
    /\ ~hook.made /\ ~panicked
    /\ created' = RotateLogs \ failed
    /\ hook' = Configured(
                  WithFormatter(EmptyHook, [type |-> "SimpleFormatter", colors |-> FALSE]),
                  [type |-> "WriterMap", val |-> ConfigWriterMap])
    /\ last' = [op |-> "ConfigLocalFileSystemLogger",
                reported |-> "common" \in failed]
    /\ UNCHANGED <<panicked, files, loggerVars, fmtVars, lockVars, poolVars, nameVars>>

\* The first part that stops a multi-writer's Write: one whose write fails or
\* that is nil; 0 when none does.
FirstStop(parts, failing, made) ==
    IF \E i \in 1..Len(parts) : parts[i] \in failing \/ parts[i] \notin made
    THEN CHOOSE i \in 1..Len(parts) :
            /\ parts[i] \in failing \/ parts[i] \notin made
            /\ \A j \in 1..(i - 1) : parts[j] \notin failing /\ parts[j] \in made
    ELSE 0

\* io.MultiWriter's Write(p): p is written to each writer in order, and the
\* first error ends the Write; a write through a nil rotating writer panics.
MultiWrite(parts, bytes, failing, made) ==
    LET stop == FirstStop(parts, failing, made)
        n == IF stop = 0 THEN Len(parts) ELSE stop
    IN [i \in 1..n |->
           [dest |-> parts[i], bytes |-> bytes,
            result |-> IF parts[i] \notin made THEN "panic"
                       ELSE IF parts[i] \in failing THEN "error" ELSE "ok"]]

\* Whether each write of a Write succeeded.
AllOK(writes) == \A i \in 1..Len(writes) : writes[i].result = "ok"

\* hook.Fire(entry) on the hook of ConfigLocalFileSystemLogger: ioWrite
\* formats the entry (a SimpleFormatter returns no error) and writes the
\* bytes to the level's multi-writer; the writes to the rotating writers in
\* failing fail.
FireMulti(level, msg, failing) ==
    /\ hook.made
    /\ IF last.op = "Fire" THEN last.did.ret # "panic" ELSE TRUE
    /\ LET writer == WriterFor(hook, level)
           bytes == [level |-> level, msg |-> msg]
           writes == IF writer = "none" THEN <<>>
                     ELSE MultiWrite(MultiWriterParts(writer), bytes, failing, created)
           r == FireResult(hook, level, TRUE, TRUE, AllOK(writes))
       IN last' = [op |-> "Fire", level |-> level,
                   did |-> IF \E i \in 1..Len(writes) : writes[i].result = "panic"
                           THEN [r EXCEPT !.ret = "panic"] ELSE r,
                   writes |-> writes,
                   formatOK |-> TRUE, openOK |-> TRUE, writeOK |-> AllOK(writes)]
    /\ UNCHANGED <<hook, panicked, files, created, loggerVars, fmtVars, lockVars, poolVars, nameVars>>

\* ------------------------------------------------------------------ SimpleFormatter
\* How many times an entry is formatted.
MaxFormats == 3

\* The escape code SimpleFormatter writes before a colored record.
ColorCode(level) ==
    CASE level \in {TraceLevel, DebugLevel} -> "\\x1b[34;1m"
      [] level = InfoLevel -> "\\x1b[32;1m"
      [] level = WarnLevel -> "\\x1b[35;1m"
      [] OTHER -> "\\x1b[31;1m"

\* entry.Level.String(), as the header prints it.
LevelName(level) ==
    CASE level = TraceLevel -> "trace"
      [] level = DebugLevel -> "debug"
      [] level = InfoLevel -> "info"
      [] level = WarnLevel -> "warning"
      [] level = ErrorLevel -> "error"
      [] level = FatalLevel -> "fatal"
      [] OTHER -> "panic"

\* The strings one Format call writes to its buffer, for the formatter's
\* Colored, the logger's ReportCaller and the entry e: the color code, the
\* time and level header, the caller, the message, the reset code, "\n".
Record(colored, reportCaller, e) ==
    (IF colored THEN <<ColorCode(e.level)>> ELSE <<>>)
    \o <<"[time] [", LevelName(e.level), "] ">>
    \o (IF reportCaller /\ e.caller THEN <<"[ file : line func ]">> ELSE <<>>)
    \o <<e.msg>>
    \o (IF colored THEN <<"\\x1b[0m">> ELSE <<>>)
    \o <<"\n">>

\* The buffer Format writes to: entry.Buffer when the entry has one, with
\* what it holds, else a new one.
FormatBuffer(e) == IF e.buffered THEN e.buffer ELSE <<>>

\* SimpleFormatter.Format(entry): b.Bytes() after the writes.
Format(colored, reportCaller, e) == FormatBuffer(e) \o Record(colored, reportCaller, e)

\* The entries that are formatted: with or without a caller, with or without
\* an attached buffer, which is empty at first.
FormatEntries ==
    [made : {TRUE}, level : AllLevels, msg : Messages, caller : BOOLEAN,
     buffered : BOOLEAN, buffer : {<<>>}, colored : BOOLEAN, reportCaller : BOOLEAN]

\* An entry with fixed time, level, message and caller, and the formatter
\* and logger it is formatted with.
NewFormatEntry(e) ==
    /\ ~fmtEntry.made
    /\ fmtEntry' = e
    /\ formatted' = <<>>
    /\ UNCHANGED <<loggerVars, hookVars, configVars, lockVars, poolVars, nameVars>>

\* A call of f.Format(entry): the result is kept, and the entry's buffer,
\* when it has one, holds what was written.
FormatCall ==
    /\ fmtEntry.made
    /\ Len(formatted) < MaxFormats
    /\ LET bytes == Format(fmtEntry.colored, fmtEntry.reportCaller, fmtEntry)
       IN /\ formatted' = Append(formatted, bytes)
          /\ fmtEntry' = IF fmtEntry.buffered
                         THEN [fmtEntry EXCEPT !.buffer = bytes] ELSE fmtEntry
    /\ UNCHANGED <<loggerVars, hookVars, configVars, lockVars, poolVars, nameVars>>

\* ------------------------------------------------------------------ locks
\* The frame of the steps of the methods that take a lock.
notLocks == <<loggerVars, hookVars, configVars, fmtVars, poolVars, nameVars>>

LGoto(g, p) == lpc' = [lpc EXCEPT ![g] = p]

\* A goroutine between calls; nothing runs once the runtime has stopped the
\* process for the unlock of an unlocked mutex.
LIdle(g) == ~fatal /\ lpc[g] = "idle"
LAt(g, p) == ~fatal /\ lpc[g] = p

\* A mutex that any goroutine can lock, locked or not.
CanAcquireAlways(locked) == TRUE

\* sync.Mutex.Lock() returns when the mutex is not locked.
CanAcquire(locked) == ~locked

\* The methods that start with logger.mu.Lock().
MuMethods == {"ReplaceHooks", "AddHook"}

\* ReplaceHooks(hooks), with the table the goroutine has in hand, or
\* AddHook(hook).
StartMuMethod(g, op) ==
    /\ LIdle(g)
    /\ lop' = [lop EXCEPT ![g] = op]
    /\ LGoto(g, "muLock")
    /\ UNCHANGED <<muDisabled, muLocked, muHeld, hookLocked, Hooks, hooked, hand, old,
                   lret, fatal, notLocks>>

\* Where a method goes once logger.mu.Lock() has returned.
AfterMuLock(op) == IF op = "ReplaceHooks" THEN "rhRead" ELSE "ahAdd"

\* MutexWrap.Lock(): if !mw.disabled, go and lock; else return.
MuLock(g) ==
    /\ LAt(g, "muLock")
    /\ LGoto(g, IF muDisabled THEN AfterMuLock(lop[g]) ELSE "muAcquire")
    /\ UNCHANGED <<muDisabled, muLocked, muHeld, hookLocked, Hooks, hooked, hand, old,
                   lop, lret, fatal, notLocks>>

\* mw.lock.Lock(): the goroutine waits here while the mutex is locked.
MuAcquire(g) ==
    /\ LAt(g, "muAcquire")
    /\ CanAcquire(muLocked)
    /\ muLocked' = TRUE
    /\ muHeld' = [muHeld EXCEPT ![g] = TRUE]
    /\ LGoto(g, AfterMuLock(lop[g]))
    /\ UNCHANGED <<muDisabled, hookLocked, Hooks, hooked, hand, old, lop, lret, fatal,
                   notLocks>>

\* ReplaceHooks: oldHooks := logger.Hooks
RhRead(g) ==
    /\ LAt(g, "rhRead")
    /\ old' = [old EXCEPT ![g] = Hooks]
    /\ LGoto(g, "rhWrite")
    /\ UNCHANGED <<muDisabled, muLocked, muHeld, hookLocked, Hooks, hooked, hand,
                   lop, lret, fatal, notLocks>>

\* ReplaceHooks: logger.Hooks = hooks
RhWrite(g) ==
    /\ LAt(g, "rhWrite")
    /\ Hooks' = hand[g]
    /\ LGoto(g, "muUnlock")
    /\ UNCHANGED <<muDisabled, muLocked, muHeld, hookLocked, hooked, hand, old,
                   lop, lret, fatal, notLocks>>

\* An AddHook whose Hooks.Add calls a hook method that takes the hook's lock.
AfterAddThroughHookLock == "hookAcquire"

\* Where AddHook goes after logger.Hooks.Add(hook): Add asks the hook for its
\* Levels(), which takes no lock, and AddHook returns through its deferred
\* Unlock.
AfterAdd == "muUnlock"

\* AddHook: logger.Hooks.Add(hook), on the table installed.
AhAdd(g) ==
    /\ LAt(g, "ahAdd")
    /\ hooked' = hooked \cup {Hooks}
    /\ LGoto(g, AfterAdd)
    /\ UNCHANGED <<muDisabled, muLocked, muHeld, hookLocked, Hooks, hand, old,
                   lop, lret, fatal, notLocks>>

\* MutexWrap.Unlock(): if !mw.disabled, mw.lock.Unlock(), which is fatal on
\* a mutex that is not locked.  The method returns; ReplaceHooks returns
\* oldHooks, the table the goroutine then has in hand.
MuUnlock(g) ==
    /\ LAt(g, "muUnlock")
    /\ IF muDisabled THEN UNCHANGED <<muLocked, fatal>>
       ELSE IF muLocked THEN muLocked' = FALSE /\ UNCHANGED fatal
       ELSE fatal' = TRUE /\ UNCHANGED muLocked
    /\ muHeld' = [muHeld EXCEPT ![g] = FALSE]
    /\ IF lop[g] = "ReplaceHooks"
       THEN /\ hand' = [hand EXCEPT ![g] = old[g]]
            /\ old' = [old EXCEPT ![g] = "none"]
       ELSE UNCHANGED <<hand, old>>
    /\ lop' = [lop EXCEPT ![g] = "none"]
    /\ LGoto(g, "idle")
    /\ UNCHANGED <<muDisabled, hookLocked, Hooks, hooked, lret, notLocks>>

\* SetNoLock(): logger.mu.Disable(), mw.disabled = true, with no lock taken.
SetNoLock(g) ==
    /\ LIdle(g)
    /\ muDisabled' = TRUE
    /\ UNCHANGED <<muLocked, muHeld, hookLocked, Hooks, hooked, hand, old, lpc, lop,
                   lret, fatal, notLocks>>

\* The hook methods, which start with hook.lock.Lock().
HookMethods == {"Fire", "SetFormatter"}

StartHookMethod(g, op) ==
    /\ LIdle(g)
    /\ lop' = [lop EXCEPT ![g] = op]
    /\ LGoto(g, "hookAcquire")
    /\ UNCHANGED <<muDisabled, muLocked, muHeld, hookLocked, Hooks, hooked, hand, old,
                   lret, fatal, notLocks>>

\* Where a method goes with the hook's lock.
AfterHookAcquire(op) ==
    CASE op = "Fire" -> "fireResolve"
      [] op = "SetFormatter" -> "sfSet"
      [] OTHER -> "hookUnlock"

\* hook.lock.Lock(): the goroutine waits here while the lock is locked.
HookAcquire(g) ==
    /\ LAt(g, "hookAcquire")
    /\ ~hookLocked
    /\ hookLocked' = TRUE
    /\ LGoto(g, AfterHookAcquire(lop[g]))
    /\ UNCHANGED <<muDisabled, muLocked, muHeld, Hooks, hooked, hand, old, lop, lret,
                   fatal, notLocks>>

\* A Fire that unlocks before its write only, and not where it drops the entry.
FireReturnsUnlockedOnWrite(ret) == IF ret = "drop" THEN "idle" ELSE "hookUnlock"

\* Where Fire goes to return ret: defer hook.lock.Unlock() runs on every
\* return.
FireReturns(ret) == "hookUnlock"

\* The returns of ioWrite and fileWrite before the write: no destination,
\* the open failed, the formatter failed.
EarlyReturns == {"drop", "openErr", "formatErr"}

\* Fire up to the write: the destination is resolved, the file opened, the
\* entry formatted; Fire returns at once, or goes on to write.
FireResolve(g, ret) ==
    /\ LAt(g, "fireResolve")
    /\ IF ret \in EarlyReturns
       THEN /\ lret' = [lret EXCEPT ![g] = ret]
            /\ LGoto(g, FireReturns(ret))
            /\ lop' = IF FireReturns(ret) = "idle" THEN [lop EXCEPT ![g] = "none"] ELSE lop
       ELSE /\ LGoto(g, "fireWrite")
            /\ UNCHANGED <<lret, lop>>
    /\ UNCHANGED <<muDisabled, muLocked, muHeld, hookLocked, Hooks, hooked, hand, old,
                   fatal, notLocks>>

\* writer.Write(msg) or fd.Write(msg), and the return.
FireWrite(g, ret) ==
    /\ LAt(g, "fireWrite")
    /\ lret' = [lret EXCEPT ![g] = ret]
    /\ LGoto(g, FireReturns(ret))
    /\ UNCHANGED <<muDisabled, muLocked, muHeld, hookLocked, Hooks, hooked, hand, old,
                   lop, fatal, notLocks>>

\* SetFormatter: hook.formatter = formatter, with the lock.
SfSet(g) ==
    /\ LAt(g, "sfSet")
    /\ LGoto(g, "hookUnlock")
    /\ UNCHANGED <<muDisabled, muLocked, muHeld, hookLocked, Hooks, hooked, hand, old,
                   lop, lret, fatal, notLocks>>

\* Where a goroutine goes once the hook's lock is unlocked: the method returns.
AfterHookUnlock(op) == IF op \in MuMethods THEN "muUnlock" ELSE "idle"

\* hook.lock.Unlock(), deferred, and the return.
HookUnlock(g) ==
    /\ LAt(g, "hookUnlock")
    /\ hookLocked' = FALSE
    /\ lret' = [lret EXCEPT ![g] = "none"]
    /\ LGoto(g, AfterHookUnlock(lop[g]))
    /\ lop' = IF AfterHookUnlock(lop[g]) = "idle" THEN [lop EXCEPT ![g] = "none"] ELSE lop
    /\ UNCHANGED <<muDisabled, muLocked, muHeld, Hooks, hooked, hand, old, fatal,
                   notLocks>>

\* ------------------------------------------------------------------ entry pool
\* The frame of the steps of the calls that take an entry.
notPool == <<loggerVars, hookVars, configVars, fmtVars, lockVars, nameVars>>

PGoto(g, p) == ppc' = [ppc EXCEPT ![g] = p]

\* The methods that take an entry: the logging methods, which hand it to
\* the entry's Log, and the With methods, which hand it to the entry's
\* field builder.
PoolMethods == {"Log", "WithField"}

\* A call of a logging method whose level is enabled, or of a With method.
StartPoolCall(g, op) ==
    /\ ppc[g] = "idle"
    /\ pop' = [pop EXCEPT ![g] = op]
    /\ released' = [released EXCEPT ![g] = 0]
    /\ derived' = [derived EXCEPT ![g] = NoEntry]
    /\ PGoto(g, "newEntry")
    /\ UNCHANGED <<pooled, live, Data, held, notPool>>

\* newEntry(): entryPool.Get() gives an entry the pool holds, or nothing (a
\* sync.Pool may give nothing whatever it holds), and then NewEntry(logger)
\* allocates one, with an empty Data.
newEntry(g, e) ==
    /\ ppc[g] = "newEntry"
    /\ \/ /\ e \in pooled
          /\ pooled' = pooled \ {e}
          /\ UNCHANGED <<live, Data>>
       \/ /\ e \notin live
          /\ live' = live \cup {e}
          /\ Data' = [Data EXCEPT ![e] = {}]
          /\ UNCHANGED pooled
    /\ held' = [held EXCEPT ![g] = e]
    /\ PGoto(g, "use")
    /\ UNCHANGED <<pop, released, derived, notPool>>

\* entry.Log(level, args...): the entry is formatted and passed to the
\* hooks, which may add fields to it.
EntryUse(g, fields) ==
    /\ ppc[g] = "use"
    /\ pop[g] = "Log"
    /\ Data' = [Data EXCEPT ![held[g]] = @ \cup fields]
    /\ PGoto(g, "release")
    /\ UNCHANGED <<pooled, live, held, pop, released, derived, notPool>>

\* entry.WithField(key, value): a new entry, with its own Data merged from
\* the entry's and the field; the entry itself is left as it is.
EntryWithField(g, key) ==
    /\ ppc[g] = "use"
    /\ pop[g] = "WithField"
    /\ derived' = [derived EXCEPT ![g] = [entry |-> "new", data |-> Data[held[g]] \cup {key}]]
    /\ PGoto(g, "release")
    /\ UNCHANGED <<pooled, live, Data, held, pop, released, notPool>>

\* A releaseEntry that puts the entry back with the Data it has.
ReleasedDataKept(data) == data

\* releaseEntry: entry.Data = map[string]interface{}{}
ReleasedData(data) == {}

\* releaseEntry(entry), after the entry's method has returned (deferred in
\* the With methods): the Data is emptied and the entry put in the pool;
\* the method returns.
releaseEntry(g) ==
    /\ ppc[g] = "release"
    /\ Data' = [Data EXCEPT ![held[g]] = ReleasedData(@)]
    /\ pooled' = pooled \cup {held[g]}
    /\ held' = [held EXCEPT ![g] = "none"]
    /\ released' = [released EXCEPT ![g] = @ + 1]
    /\ PGoto(g, "idle")
    /\ UNCHANGED <<live, pop, derived, notPool>>

\* A sync.Pool drops what it holds when it likes (at a garbage collection).
PoolDrop(e) ==
    /\ e \in pooled
    /\ pooled' = pooled \ {e}
    /\ live' = live \ {e}
    /\ UNCHANGED <<Data, held, ppc, pop, released, derived, notPool>>

\* ------------------------------------------------------------------ createFileLogger
\* The frame of the steps that create and rotate the writers.
notNames == <<loggerVars, hookVars, configVars, fmtVars, lockVars, poolVars>>

\* The two copies of createFileLogger and ConfigLocalFileSystemLogger, by
\* package; the base paths path.Join(logPath, logFileName) gives; the level
\* names of the five createFileLogger calls, in order; the hours at which
\* a writer is written.
Packages == {"logrus", "lfs"}
BasePaths == {"logs/app", "logs/svc"}
LevelNames == <<"debug", "info", "warn", "error", "">>
Hours == {"202601010900", "202601011000"}

\* Strings are sequences of pieces, joined by \o.
\* prefix := ""; if len(level) > 0 { prefix = "." + level }
Prefix(level) == IF level # "" THEN <<".", level>> ELSE <<>>

\* The first argument of rotatelogs.New: logPath+prefix+".%Y%m%d%H%M.log"
Pattern(level, logPath) == <<logPath>> \o Prefix(level) \o <<".", "%Y%m%d%H%M", ".log">>

\* rotatelogs.WithLinkName: logPath+prefix+".log" in package logrus,
\* logPath+".log" in package lfs.
LinkName(pkg, level, logPath) ==
    IF pkg = "logrus" THEN <<logPath>> \o Prefix(level) \o <<".log">>
    ELSE <<logPath, ".log">>

\* The file a rotating writer writes at an hour: its pattern with the time.
FileAt(pattern, hour) ==
    [i \in 1..Len(pattern) |-> IF pattern[i] = "%Y%m%d%H%M" THEN hour ELSE pattern[i]]

\* ConfigLocalFileSystemLogger(logPath, logFileName) of a package:
\* baseLogPath := path.Join(logPath, logFileName)
StartConfig(pkg, baseLogPath) ==
    /\ ~naming.made
    /\ naming' = [made |-> TRUE, pkg |-> pkg, baseLogPath |-> baseLogPath]
    /\ UNCHANGED <<rotating, pointed, notNames>>

\* The next createFileLogger(level, baseLogPath) call of the five.
createFileLogger ==
    /\ naming.made
    /\ Len(rotating) < Len(LevelNames)
    /\ LET level == LevelNames[Len(rotating) + 1]
       IN rotating' = Append(rotating,
              [level |-> level,
               pattern |-> Pattern(level, naming.baseLogPath),
               link |-> LinkName(naming.pkg, level, naming.baseLogPath)])
    /\ UNCHANGED <<naming, pointed, notNames>>

\* A write to the i-th rotating writer at an hour: the writer writes the
\* file of that hour and points its symlink at it.
RotateWrite(i, hour) ==
    /\ i \in 1..Len(rotating)
    /\ pointed' = pointed \cup
          {[link |-> rotating[i].link, file |-> FileAt(rotating[i].pattern, hour),
            level |-> rotating[i].level]}
    /\ UNCHANGED <<naming, rotating, notNames>>

\* ------------------------------------------------------------------ specification
\* SetLevel's arguments: one level, or two.
SetLevelArgs == {<<l>> : l \in LevelArgs} \cup (LevelArgs \X LevelArgs)

SetterNext ==
    \E g \in Setters :
        \/ SetLevelNone(g)
        \/ \E levels \in SetLevelArgs : SetLevelStoreConsole(g, levels)
        \/ SetLevelStoreHook(g)
        \/ SetLevelStoreHook2(g)

CallerNext ==
    \E g \in Callers :
        \/ GetLevel(g)
        \/ \E level \in AllLevels : IsLevelEnabledCall(g, level)
        \/ \E fam \in Families, style \in Styles, level \in AllLevels :
               LogCall(g, fam, style, level)
        \/ LoadConsole(g)
        \/ LoadHook(g)
        \/ NewEntryStep(g)
        \/ CallFn(g)
        \/ EntryLog(g)
        \/ ReleaseEntry(g)
        \/ RunHandlers(g)
        \/ InvokeExitFunc(g)

\* The Logger: goroutines calling its methods.
Next == SetterNext \/ CallerNext

Spec == Init /\ [][Next]_vars

\* The LfsHook: its construction and its operations.
HookNext ==
    \/ \E output \in Outputs, f \in Formatters : NewLocalFileSystemHook(output, f)
    \/ \E f \in Formatters : SetFormatter(f)
    \/ \E p \in Paths : SetDefaultPath(p)
    \/ \E w \in Writers : SetDefaultWriter(w)
    \/ LevelsCall
    \/ \E level \in MapLevels, formatOK \in BOOLEAN, openOK \in BOOLEAN, writeOK \in BOOLEAN :
          Fire(level, formatOK, openOK, writeOK)

SpecHook == Init /\ [][HookNext]_vars

\* The hook ConfigLocalFileSystemLogger wires, and the entries fired at it.
ConfigNext ==
    \/ \E failed \in SUBSET RotateLogs : ConfigLocalFileSystemLogger(failed)
    \/ \E level \in AllLevels, msg \in Messages, failing \in SUBSET RotateLogs :
          FireMulti(level, msg, failing)

SpecConfig == Init /\ [][ConfigNext]_vars

\* SimpleFormatter.Format, called again and again on one entry.
FormatNext ==
    \/ \E e \in FormatEntries : NewFormatEntry(e)
    \/ FormatCall

SpecFormat == Init /\ [][FormatNext]_vars

\* The methods that take the logger's mutex, and SetNoLock, called by
\* goroutines that share one Logger.
LocksNext ==
    \/ \E g \in Swappers, op \in MuMethods : StartMuMethod(g, op)
    \/ \E g \in Swappers : MuLock(g)
    \/ \E g \in Swappers : MuAcquire(g)
    \/ \E g \in Swappers : RhRead(g)
    \/ \E g \in Swappers : RhWrite(g)
    \/ \E g \in Swappers : AhAdd(g)
    \/ \E g \in Swappers : MuUnlock(g)
    \/ \E g \in Disablers : SetNoLock(g)

SpecLocks == Init /\ [][LocksNext]_vars

\* The methods of the hook, which take its lock, and AddHook, called by
\* goroutines that share one Logger and one LfsHook.
HookLockNext ==
    \/ \E g \in Firers : StartMuMethod(g, "AddHook")
    \/ \E g \in Firers : MuLock(g)
    \/ \E g \in Firers : MuAcquire(g)
    \/ \E g \in Firers : AhAdd(g)
    \/ \E g \in Firers : MuUnlock(g)
    \/ \E g \in Firers, op \in HookMethods : StartHookMethod(g, op)
    \/ \E g \in Firers : HookAcquire(g)
    \/ \E g \in Firers, ret \in EarlyReturns \cup {"write"} : FireResolve(g, ret)
    \/ \E g \in Firers, ret \in {"writeErr", "ok"} : FireWrite(g, ret)
    \/ \E g \in Firers : SfSet(g)
    \/ \E g \in Firers : HookUnlock(g)

SpecHookLock == Init /\ [][HookLockNext]_vars

\* The entry pool: goroutines calling the methods that take an entry.
PoolNext ==
    \/ \E g \in PoolUsers, op \in PoolMethods : StartPoolCall(g, op)
    \/ \E g \in PoolUsers, e \in Entries : newEntry(g, e)
    \/ \E g \in PoolUsers, fields \in SUBSET Keys : EntryUse(g, fields)
    \/ \E g \in PoolUsers, key \in Keys : EntryWithField(g, key)
    \/ \E g \in PoolUsers : releaseEntry(g)
    \/ \E e \in Entries : PoolDrop(e)

SpecPool == Init /\ [][PoolNext]_vars

\* The names of the rotating writers: the five createFileLogger calls of a
\* ConfigLocalFileSystemLogger, and the writes that rotate.
NamesNext ==
    \/ \E pkg \in Packages, baseLogPath \in BasePaths : StartConfig(pkg, baseLogPath)
    \/ createFileLogger
    \/ \E i \in 1..Len(LevelNames), hour \in Hours : RotateWrite(i, hour)

SpecNames == Init /\ [][NamesNext]_vars

\* ------------------------------------------------------------------ claims
\* The position of the first e in the sequence s, 0 when s has none.
Index(s, e) ==
    IF \E i \in 1..Len(s) : s[i] = e
    THEN CHOOSE i \in 1..Len(s) : s[i] = e /\ \A j \in 1..(i - 1) : s[j] # e
    ELSE 0

\* How many times e occurs in the sequence s.
Count(s, e) == Cardinality({i \in 1..Len(s) : s[i] = e})

\* The calls that have the result of their own IsLevelEnabled test.
Checked(g) ==
    /\ pc[g] \notin {"idle", "loadConsole", "loadHook"}
    /\ \/ call[g].op = "IsLevelEnabled"
       \/ call[g].op = "log" /\ call[g].fam # "Print"

\* C1: IsLevelEnabled(L) is true if and only if the console threshold or
\* the hook threshold is at least L (for the thresholds as they stand during
\* the call: no SetLevel has run while it was made).
C1_IsLevelEnabledIffEitherAdmits ==
    \A g \in Goroutines :
        (Checked(g) /\ ~overlapped[g]) =>
            (enabled[g] <=> (ConsoleLevel >= call[g].level \/ HookLevel >= call[g].level))

\* C1's case: IsLevelEnabled returned true by the hook threshold alone.
C1_Witness ==
    \E g \in Goroutines :
        /\ call[g].op = "IsLevelEnabled" /\ pc[g] = "done" /\ ~overlapped[g]
        /\ enabled[g]
        /\ ConsoleLevel < call[g].level
        /\ HookLevel >= call[g].level

\* C2: with both thresholds set to L2 by SetLevel(L2), a logging call of a
\* more verbose severity L1 acquires no entry, writes nothing to the output
\* and dispatches to no hook.
C2_DisabledCallAcquiresNothing ==
    \A g \in Goroutines :
        (/\ call[g].op = "log"
         /\ ~overlapped[g]
         /\ ConsoleLevel = HookLevel
         /\ call[g].level > ConsoleLevel) =>
            (/\ ~entry[g]
             /\ Count(events[g], "acquire") = 0
             /\ Count(events[g], "out") = 0
             /\ Count(events[g], "hooks") = 0)

\* C3: a Fatal-severity call, once over, has invoked the exit function
\* exactly once, with status 1, whatever the thresholds; the function is the
\* configured one, or os.Exit when none was configured.
C3_FatalExitsOnce ==
    \A g \in Goroutines :
        (call[g].op = "log" /\ call[g].fam = "Fatal") =>
            /\ Len(exitCalls[g]) <= 1
            /\ pc[g] \in {"done", "exited"} =>
                  /\ exitCalls[g] = <<[fn |-> ExitFunc, code |-> 1]>>
                  /\ ExitFunc \in {"os.Exit", "custom"}
                  /\ Count(events[g], "defaultExitFunc") = 1 => ExitFunc = "os.Exit"

\* C3's case: a Fatal call that logged no entry (neither threshold admits
\* Fatal) and still invoked the exit function, the default one for want of
\* a configured one.
C3_Witness ==
    \E g \in Goroutines :
        /\ call[g].op = "log" /\ call[g].fam = "Fatal"
        /\ pc[g] = "exited"
        /\ ~enabled[g]
        /\ events[g] = <<"handlers", "defaultExitFunc", "exit">>
        /\ exitCalls[g] = <<[fn |-> "os.Exit", code |-> 1]>>

\* C4: in a Fatal-severity call the exit function is invoked after the exit
\* handlers have run, and the handlers run after the entry, if one was
\* acquired, was dispatched and released; an enabled call has dispatched its
\* entry before the handlers run.
C4_FatalOrder ==
    \A g \in Goroutines :
        (call[g].op = "log" /\ call[g].fam = "Fatal") =>
            LET e == events[g] IN
            /\ Index(e, "exit") > 0 =>
                  (0 < Index(e, "handlers") /\ Index(e, "handlers") < Index(e, "exit"))
            /\ Index(e, "handlers") > 0 =>
                  /\ ~entry[g]
                  /\ enabled[g] => Index(e, "dispatch") > 0
                  /\ Index(e, "acquire") > 0 =>
                        /\ Index(e, "acquire") < Index(e, "dispatch")
                        /\ Index(e, "dispatch") < Index(e, "release")
                        /\ Index(e, "release") < Index(e, "handlers")

\* C4's case: a Fatal call that delivered its entry to the output and the
\* hooks, released it, ran the handlers and invoked the exit function.
C4_Witness ==
    \E g \in Goroutines :
        /\ call[g].op = "log" /\ call[g].fam = "Fatal"
        /\ events[g] = <<"acquire", "dispatch", "out", "hooks", "release", "handlers", "exit">>

\* C5: a goroutine that loads the hook threshold while one SetLevel call is
\* in flight observes the value the threshold had before that call or the
\* value the call leaves behind, never the console argument in between.
C5_SetLevelAtomic ==
    [][\A g \in Goroutines, s \in Goroutines :
          (/\ g # s
           /\ pc[g] = "loadHook" /\ pc'[g] # "loadHook"
           /\ SetLevelInFlight = {s}) =>
              HookLevel \in {call[s].oldHook, FinalHook(call[s].levels)}]_vars

\* C6: the message function of a function-taking logging method is called
\* only if the method's level is enabled on the logger, and at most once.
C6_FnOnlyWhenEnabled ==
    \A g \in Goroutines :
        call[g].op = "log" =>
            /\ Count(events[g], "fn") <= 1
            /\ (Count(events[g], "fn") = 1 /\ ~overlapped[g]) =>
                  (ConsoleLevel >= call[g].level \/ HookLevel >= call[g].level)

\* C7: NewLocalFileSystemHook accepts exactly four output types, a string,
\* an io.Writer, a PathMap and a WriterMap, and configures for each only the
\* matching fields; with an output of any other type it panics and yields
\* no hook, so that no operation of a hook follows.
C7_ConstructorAcceptsFourShapes ==
    /\ panicked => (~hook.made /\ last.op = "NewLocalFileSystemHook")
    /\ last.op = "NewLocalFileSystemHook" =>
          LET o == last.output
              unset == [paths |-> NilMap, writers |-> NilMap, levels |-> {},
                        defaultPath |-> "", defaultWriter |-> "nil",
                        hasDefaultPath |-> FALSE, hasDefaultWriter |-> FALSE]
              fields == [f \in DOMAIN unset |-> hook[f]]
          IN /\ panicked <=> o.type \notin {"string", "io.Writer", "PathMap", "WriterMap"}
             /\ hook.made <=> ~panicked
             /\ o.type = "string" =>
                   fields = [unset EXCEPT !.defaultPath = o.val, !.hasDefaultPath = TRUE]
             /\ o.type = "io.Writer" =>
                   fields = [unset EXCEPT !.defaultWriter = o.val, !.hasDefaultWriter = TRUE]
             /\ o.type = "PathMap" =>
                   fields = [unset EXCEPT !.paths = Map(o.val), !.levels = DOMAIN o.val]
             /\ o.type = "WriterMap" =>
                   fields = [unset EXCEPT !.writers = Map(o.val), !.levels = DOMAIN o.val]

\* C7's case: the constructor panicked on a map that is no PathMap.
C7_Witness ==
    /\ last.op = "NewLocalFileSystemHook"
    /\ last.output.type = "map[Level]string"
    /\ panicked
    /\ ~hook.made

\* C8: whatever public operations a hook has had, exactly one of its two
\* addressing modes is active: it has writer destinations (a writers map or
\* a default writer) or path destinations (a paths map or a default path),
\* not both.
C8_OneAddressingMode ==
    hook.made =>
        ((~hook.writers.nil \/ hook.hasDefaultWriter)
            # (~hook.paths.nil \/ hook.hasDefaultPath))

\* C9: Fire delivers an entry of level L to the destination mapped to L if
\* there is one, otherwise to the hook's default if one was set, otherwise to
\* none; with a destination mapped to L the default receives nothing, and
\* with no destination Fire writes nothing, opens no file and returns nil.
C9_FireResolvesDestination ==
    last.op = "Fire" =>
        LET L == last.level
            mapped == IF L \in DOMAIN hook.writers.m THEN hook.writers.m[L]
                      ELSE IF L \in DOMAIN hook.paths.m THEN hook.paths.m[L]
                      ELSE "none"
            default == IF hook.hasDefaultWriter THEN hook.defaultWriter
                       ELSE IF hook.hasDefaultPath THEN hook.defaultPath
                       ELSE "none"
        IN /\ last.did.dest = (IF mapped # "none" THEN mapped ELSE default)
           /\ last.did.dest = "none" =>
                 (~last.did.opened /\ ~last.did.attempted /\ last.did.ret = "nil")

\* C10: Fire returns the I/O error when the open or the write of the
\* resolved destination fails, in writer mode and in path mode alike, and
\* returns nil only when the write succeeded or the entry had no destination.
C10_FireReturnsIOError ==
    (last.op = "Fire" /\ last.did.dest # "none" /\ last.formatOK) =>
        /\ (last.did.via = "fileWrite" /\ ~last.openOK) => last.did.ret = "openErr"
        /\ (last.did.attempted /\ ~last.did.written) => last.did.ret = "writeErr"
        /\ last.did.ret = "nil" => last.did.written

\* C11: the formatter an LfsHook holds, after construction and after any
\* SetFormatter, has its colors off, so that no Fire writes ANSI escape
\* codes to a file or a writer.
C11_FormatterColorsOff ==
    hook.made => ~hook.formatter.colors

\* C14: Levels() of a hook constructed from a PathMap or a WriterMap returns
\* exactly the levels that are keys of the map, the ones recorded at
\* construction.
C14_LevelsAreTheMapKeys ==
    (last.op = "Levels" /\ (~hook.paths.nil \/ ~hook.writers.nil)) =>
        /\ last.result = hook.levels
        /\ last.result = DOMAIN hook.paths.m \cup DOMAIN hook.writers.m

\* C12: on the hook of ConfigLocalFileSystemLogger, an entry of level Debug,
\* Info or Warn makes exactly one write to the level's own rotating writer
\* and exactly one to the common one, an entry of level Error, Fatal or Panic
\* exactly one to the error writer and exactly one to the common one; both
\* writes carry the same bytes and no other writer is written.
C12_ConfigFanOut ==
    (last.op = "Fire" /\ created = RotateLogs /\ last.level \in PanicLevel..DebugLevel) =>
        LET own == CASE last.level = DebugLevel -> "debug"
                     [] last.level = InfoLevel -> "info"
                     [] last.level = WarnLevel -> "warn"
                     [] OTHER -> "error"
            w == last.writes
        IN /\ Len(w) = 2
           /\ w[1].dest = own
           /\ w[2].dest = "common"
           /\ w[1].bytes = w[2].bytes

\* C13: in the fan-out of one level's destinations, when the write to an
\* earlier destination fails the write to every remaining one is still
\* attempted with the same bytes, and the error Fire returns is the first
\* I/O error.
C13_FanOutGoesOnAfterError ==
    (last.op = "Fire" /\ created = RotateLogs /\ last.level \in PanicLevel..DebugLevel) =>
        LET w == last.writes IN
        /\ {w[i].dest : i \in 1..Len(w)} =
              {MultiWriterParts(last.did.dest)[i] : i \in 1..Len(MultiWriterParts(last.did.dest))}
        /\ \A i, j \in 1..Len(w) : w[i].bytes = w[j].bytes
        /\ (\E i \in 1..Len(w) : w[i].result = "error") <=> last.did.ret = "writeErr"

\* C17: SimpleFormatter.Format returns, for a fixed entry, the same bytes on
\* the first call and on every later one, with or without an attached
\* buffer, and each result is one record ended by one newline.
C17_FormatRepeatable ==
    \A n \in 1..Len(formatted) :
        /\ formatted[n] = formatted[1]
        /\ formatted[n][Len(formatted[n])] = "\n"
        /\ Cardinality({i \in 1..Len(formatted[n]) : formatted[n][i] = "\n"}) = 1

\* C19: every read and write of the two thresholds by the Logger's own
\* operations is atomic: no logging call that runs while SetLevel is between
\* its stores reads a threshold by a plain access.
C19_ThresholdAccessesAtomic ==
    \A g \in Goroutines :
        (/\ pc[g] = "newEntry"
         /\ ~terminated
         /\ entryPool > 0
         /\ SetLevelInFlight \ {g} # {}) =>
            ThresholdAccess(pc[g]) = "atomic"

\* The table goroutine g holds: the one it has in hand until its ReplaceHooks
\* has installed it, then the one it is about to return.
InHand(g) ==
    IF lop[g] = "ReplaceHooks" /\ lpc[g] = "muUnlock" THEN old[g] ELSE hand[g]

\* ReplaceHooks swaps in one step and returns the table installed just
\* before; no table is lost or handed out twice.
SwapsInOneStep ==
    /\ {Hooks} \cup {InHand(g) : g \in Swappers} = Tables
    /\ \A g \in Swappers :
          /\ (lop[g] = "ReplaceHooks" /\ lpc[g] = "rhWrite") => old[g] = Hooks
          /\ (lop[g] = "ReplaceHooks" /\ lpc[g] = "muUnlock") =>
                (Hooks = hand[g] /\ old[g] \in Tables \ {hand[g]})

\* C15: as long as SetNoLock has not been called, ReplaceHooks(h) swaps the
\* whole table in one step under the logger lock: the table it returns is the
\* one that was installed when it installed h, the logger's table is h when
\* it returns, and with concurrent calls every table is either installed or
\* in exactly one goroutine's hands.
C15_ReplaceHooksSwapsUnderLock == ~muDisabled => SwapsInOneStep

\* C15, as stated: the same of every ReplaceHooks, whether or not the mutex
\* has been disabled.
C15_ReplaceHooksSwaps == SwapsInOneStep

\* A ReplaceHooks about to return the table it replaced, with the lock, while
\* the other goroutine waits for the lock to replace the table too.
C15_Witness ==
    /\ ~muDisabled
    /\ \E g, h \in Swappers :
          /\ g # h
          /\ lop[g] = "ReplaceHooks" /\ lpc[g] = "muUnlock" /\ muHeld[g]
          /\ old[g] = "t0"
          /\ lop[h] = "ReplaceHooks" /\ lpc[h] = "muAcquire"

\* A goroutine waits in mw.lock.Lock() for a mutex that is locked and that no
\* goroutine is going to unlock.
Blocked(g) == lpc[g] = "muAcquire" /\ muLocked /\ \A h \in Lockers : ~muHeld[h]

\* C16: a SetNoLock that interleaves with another goroutine holding the lock
\* leaves no caller blocked forever, and no Unlock reaches a mutex that is
\* not locked.
C16_SetNoLockBlocksNoCaller ==
    /\ ~fatal
    /\ \A g \in Swappers : ~Blocked(g)

\* The goroutines between hook.lock.Lock() and the deferred Unlock of a hook
\* method: for Fire, from resolving the destination to the end of its write.
InHookSection ==
    {g \in Lockers : lpc[g] \in {"fireResolve", "fireWrite", "sfSet", "hookUnlock"}}

\* C18: at most one goroutine at a time is between resolving the destination
\* and finishing its write in Fire, and the hook's lock is locked exactly
\* while a goroutine is there: whichever way Fire returns (drop, format
\* error, open error, write error, success), the lock is released.
C18_FireMutuallyExclusive ==
    /\ Cardinality(InHookSection) <= 1
    /\ hookLocked <=> InHookSection # {}
    /\ \A g \in Lockers : lpc[g] = "idle" => lret[g] = "none"

\* A Fire returning a write error, about to unlock, while another goroutine's
\* Fire waits for the lock.
C18_Witness ==
    \E g, h \in Firers :
        /\ g # h
        /\ lop[g] = "Fire" /\ lpc[g] = "hookUnlock" /\ lret[g] = "writeErr"
        /\ lop[h] = "Fire" /\ lpc[h] = "hookAcquire"

\* The goroutines that hold the logger's mutex, and those about to lock the
\* hook's lock or holding it.
InMuSection == {g \in Lockers : muHeld[g]}
AtHookLock == {g \in Lockers : lpc[g] = "hookAcquire"} \cup InHookSection

InFlight == {g \in PoolUsers : ppc[g] \in {"use", "release"}}

\* C21: every call that takes an entry releases it exactly once, after the
\* entry's own method has returned, with its Data emptied: each entry in the
\* pool has an empty Data, no entry is in the pool while a call in flight
\* still uses it, and no two calls use the same entry.
C21_AcquireClearRelease ==
    /\ \A e \in pooled : Data[e] = {}
    /\ \A g \in InFlight : held[g] \in live \ pooled
    /\ \A g, h \in InFlight : g # h => held[g] # held[h]
    /\ \A g \in PoolUsers :
          /\ ppc[g] \in {"newEntry", "use", "release"} => released[g] = 0
          /\ (ppc[g] = "idle" /\ pop[g] # "none") => (released[g] = 1 /\ held[g] = "none")
          /\ derived[g] # NoEntry => derived[g].entry = "new"

\* A With call and a logging call whose hooks added a field, each about to
\* release its entry, with an entry released earlier in the pool.
C21_Witness ==
    \E g, h \in PoolUsers :
        /\ g # h
        /\ ppc[g] = "release" /\ pop[g] = "WithField" /\ derived[g].entry = "new"
        /\ ppc[h] = "release" /\ pop[h] = "Log" /\ Data[held[h]] # {}
        /\ pooled # {}

\* The rotating writers installed in the hook: the parts of the writers of
\* its WriterMap.
Installed(h) ==
    UNION {{MultiWriterParts(h.writers.m[l])[i] :
               i \in 1..Len(MultiWriterParts(h.writers.m[l]))} :
           l \in DOMAIN h.writers.m}

\* C22: when the creation of one of the five rotating writers fails,
\* ConfigLocalFileSystemLogger reports the failure, whichever writer it is,
\* and installs no writer that was not created in the hook.
C22_ConfigReportsFailure ==
    last.op = "ConfigLocalFileSystemLogger" =>
        /\ created # RotateLogs => last.reported
        /\ Installed(hook) \subseteq created

\* C23: the rotating writers created by ConfigLocalFileSystemLogger, in
\* either package, have pairwise distinct filename patterns and pairwise
\* distinct symlink names, and no two of them point the same symlink at
\* different files.
C23_DistinctNames ==
    /\ \A i, j \in 1..Len(rotating) :
          i # j => (/\ rotating[i].pattern # rotating[j].pattern
                    /\ rotating[i].link # rotating[j].link)
    /\ \A x, y \in pointed :
          (x.link = y.link /\ x.level # y.level) => x.file = y.file

====
